---------------------------- MODULE Spec2Model ----------------------------
(***************************************************************************)
(* Model of pydruid's DB-API layer: pydruid/db/api.py (Connection, Cursor, *)
(* the decorators check_closed / check_result, the generator               *)
(* Cursor._stream_query) and pydruid/db/async_api.py (AsyncConnection,     *)
(* AsyncCursor, the line reassembler AsyncCursor._aiter_lines).            *)
(*                                                                         *)
(* A response body is modelled at two levels.  The cursor state machine    *)
(* works on the sequence of lines the transport hands to _stream_query     *)
(* (r.iter_lines for Cursor, self._aiter_lines for AsyncCursor): a line is *)
(* the tuple of the cells of its JSON array, the blank line is <<>>.  The  *)
(* line reassembler is modelled separately on byte chunks (SpecLines).     *)
(***************************************************************************)
EXTENDS Integers, Sequences, FiniteSets, TLC

(***************************************************************************)
(* Bounds of the model.                                                    *)
(***************************************************************************)
MaxRows == 2
MaxSize == 2
MaxCursors == 2
MaxChunks == 2
MaxChunkLen == 2
MaxStr == 2
MaxList == 2
MaxTemplate == 2

(***************************************************************************)
(* Values, rows and lines.                                                 *)
(***************************************************************************)
IntV(n) == [t |-> "int", v |-> n]
StrV(n) == [t |-> "str", v |-> n]

\* a JSON boolean, as the number Python takes it for (True == 1), and null
BoolV(n) == [t |-> "bool", v |-> n]
NullV == [t |-> "null", v |-> 0]

\* the cell values the modelled engine sends (JSON numbers and strings)
Values == {IntV(0), StrV(0)}

\* cell values of every JSON kind: number, string, boolean and null
TypedValues == {IntV(0), StrV(0), BoolV(1), NullV}

\* the header lines the modelled engine sends, one per result width
HeaderPool == {<<"name">>, <<"n", "name">>}

\* the data lines of a result of width w: the first column takes every value,
\* the further columns hold a string
RowLines(w) == {[i \in 1..w |-> IF i = 1 THEN v ELSE StrV(0)] : v \in Values}

SeqsUpTo(S, n) == UNION {[1..k -> S] : k \in 0..n}

\* collections.namedtuple(..., rename=True): a field name that is not a valid
\* field name (leading underscore, duplicate of an earlier one) is replaced by
\* its positional name
Underscored == {"_name", "_n"}
PosName(i) == <<"_0", "_1", "_2", "_3">>[i]
Rename(field_names) ==
    [i \in 1..Len(field_names) |->
        IF \/ field_names[i] \in Underscored
           \/ \E j \in 1..(i - 1) : field_names[j] = field_names[i]
        THEN PosName(i)
        ELSE field_names[i]]

\* Row._make(ujson_loads(line))
make_row(field_names, line) == [fields |-> Rename(field_names), values |-> line]

NoRow == [fields |-> <<>>, values |-> <<>>]

\* class Type
Type == [STRING |-> 1, NUMBER |-> 2, BOOLEAN |-> 3]

\* get_type(value): str and None first, bool before int
get_type(value) ==
    IF value.t \in {"str", "null"} THEN Type.STRING
    ELSE IF value.t = "bool" THEN Type.BOOLEAN
    ELSE Type.NUMBER

\* get_description_from_row(row), for a row that maps names to values
get_description_from_row(row) ==
    [i \in 1..Len(row.fields) |->
        <<row.fields[i], get_type(row.values[i]), "None", "None", "None", "None",
          get_type(row.values[i]) = Type.STRING>>]

\* Python's None and a present value, as a sequence of at most one element
None == <<>>
Some(x) == <<x>>

(***************************************************************************)
(* HTTP responses: the status and the line sequence of the body.           *)
(***************************************************************************)
Blank == <<>>

\* a data line that follows the trailer
AfterTrailer(w) == [i \in 1..w |-> IF i = 1 THEN IntV(1) ELSE StrV(0)]

\* what follows the data rows: nothing (truncated), the trailer, or the
\* trailer and one more line
Tails(w) == {<<>>, <<Blank>>, <<Blank, AfterTrailer(w)>>}

\* the data lines of a result of width w and up to n rows: the first row is
\* any data line, a further row holds its number in the first column
RowSeqs(w, n) ==
    UNION {{[j \in 1..k |-> IF j = 1 THEN first
                            ELSE [i \in 1..w |-> IF i = 1 THEN IntV(j - 1) ELSE StrV(0)]] :
                first \in RowLines(w)} : k \in 0..n}

\* the responses with a header of H and up to n data rows, and the failures
Responses(H, n) ==
    UNION {{[status |-> 200, lines |-> <<h>> \o rows \o tail] :
                rows \in RowSeqs(Len(h), n), tail \in Tails(Len(h))} :
           h \in H}
    \cup {[status |-> 500, lines |-> <<>>],
          [status |-> 200, lines |-> <<>>],
          [status |-> 200, lines |-> <<Blank>>]}

(***************************************************************************)
(* The row sequence self._results.  src = "stream": the generator of       *)
(* _stream_query suspended at a yield, items the lines of the body, pos    *)
(* the number of lines read from the line iterator, done whether the       *)
(* generator has finished.  src = "list": the iterator that rowcount       *)
(* builds over the materialized rows, pos the number of rows consumed.     *)
(***************************************************************************)
Stream(lines) == [src |-> "stream", items |-> lines, pos |-> 1, done |-> FALSE]
ListIter(rows) == [src |-> "list", items |-> rows, pos |-> 0, done |-> FALSE]

\* GenNext with `continue` in place of `break` at the blank line
RECURSIVE GenNext_continue(_)
GenNext_continue(g) ==
    IF g.done
    THEN [g |-> g, out |-> "stop", item |-> NoRow]
    ELSE IF g.pos = Len(g.items)
    THEN [g |-> [g EXCEPT !.done = TRUE],
          out |-> IF g.src = "stream" THEN "trunc" ELSE "stop",
          item |-> NoRow]
    ELSE IF g.src = "list"
    THEN [g |-> [g EXCEPT !.pos = g.pos + 1], out |-> "row",
          item |-> g.items[g.pos + 1]]
    ELSE IF g.items[g.pos + 1] = Blank
    THEN GenNext_continue([g EXCEPT !.pos = g.pos + 1])
    ELSE [g |-> [g EXCEPT !.pos = g.pos + 1], out |-> "row",
          item |-> make_row(g.items[1], g.items[g.pos + 1])]

\* GenNext without the else branch of the for loop
GenNext_no_else(g) ==
    IF g.done
    THEN [g |-> g, out |-> "stop", item |-> NoRow]
    ELSE IF g.pos = Len(g.items)
    THEN [g |-> [g EXCEPT !.done = TRUE], out |-> "stop", item |-> NoRow]
    ELSE IF g.src = "list"
    THEN [g |-> [g EXCEPT !.pos = g.pos + 1], out |-> "row",
          item |-> g.items[g.pos + 1]]
    ELSE IF g.items[g.pos + 1] = Blank
    THEN [g |-> [g EXCEPT !.pos = g.pos + 1, !.done = TRUE],
          out |-> "stop", item |-> NoRow]
    ELSE [g |-> [g EXCEPT !.pos = g.pos + 1], out |-> "row",
          item |-> make_row(g.items[1], g.items[g.pos + 1])]

\* GenNext of a generator that does not stay finished after the trailer
GenNext_unlatched(g) ==
    IF g.pos = Len(g.items)
    THEN [g |-> [g EXCEPT !.done = TRUE],
          out |-> IF g.src = "stream" /\ ~g.done THEN "trunc" ELSE "stop",
          item |-> NoRow]
    ELSE IF g.src = "list"
    THEN [g |-> [g EXCEPT !.pos = g.pos + 1], out |-> "row",
          item |-> g.items[g.pos + 1]]
    ELSE IF g.items[g.pos + 1] = Blank
    THEN [g |-> [g EXCEPT !.pos = g.pos + 1, !.done = TRUE],
          out |-> "stop", item |-> NoRow]
    ELSE [g |-> [g EXCEPT !.pos = g.pos + 1], out |-> "row",
          item |-> make_row(g.items[1], g.items[g.pos + 1])]

\* next(generator): one step of the for loop of _stream_query after the
\* header yield, or of the list iterator
GenNext(g) ==
    IF g.done
    THEN [g |-> g, out |-> "stop", item |-> NoRow]
    ELSE IF g.pos = Len(g.items)
    THEN [g |-> [g EXCEPT !.done = TRUE],
          out |-> IF g.src = "stream" THEN "trunc" ELSE "stop",
          item |-> NoRow]
    ELSE IF g.src = "list"
    THEN [g |-> [g EXCEPT !.pos = g.pos + 1], out |-> "row",
          item |-> g.items[g.pos + 1]]
    ELSE IF g.items[g.pos + 1] = Blank
    THEN [g |-> [g EXCEPT !.pos = g.pos + 1, !.done = TRUE],
          out |-> "stop", item |-> NoRow]
    ELSE [g |-> [g EXCEPT !.pos = g.pos + 1], out |-> "row",
          item |-> make_row(g.items[1], g.items[g.pos + 1])]

Raised(out) == IF out = "trunc" THEN "Truncated" ELSE ""

\* list(itertools.islice(g, n))
RECURSIVE islice(_, _)
islice(g, n) ==
    IF n <= 0
    THEN [g |-> g, rows |-> <<>>, err |-> ""]
    ELSE LET r == GenNext(g) IN
         IF r.out = "row"
         THEN LET rest == islice(r.g, n - 1) IN
              [g |-> rest.g, rows |-> <<r.item>> \o rest.rows, err |-> rest.err]
         ELSE [g |-> r.g, rows |-> <<>>, err |-> Raised(r.out)]

\* list(g), and [row async for row in g]
RECURSIVE list(_)
list(g) ==
    LET r == GenNext(g) IN
    IF r.out = "row"
    THEN LET rest == list(r.g) IN
         [g |-> rest.g, rows |-> <<r.item>> \o rest.rows, err |-> rest.err]
    ELSE [g |-> r.g, rows |-> <<>>, err |-> Raised(r.out)]

\* the loop of AsyncCursor.fetchmany: every item of the row sequence is
\* unpacked into (i, row)
RECURSIVE async_fetchmany_loop(_, _, _)
async_fetchmany_loop(g, size, rows) ==
    LET r == GenNext(g) IN
    IF r.out # "row"
    THEN [g |-> r.g, rows |-> rows, err |-> Raised(r.out)]
    ELSE IF Len(r.item.values) # 2
    THEN [g |-> r.g, rows |-> <<>>, err |-> "ValueError"]
    ELSE LET i == r.item.values[1]
             row == r.item.values[2]
         IN IF i.t \notin {"int", "bool"}
            THEN [g |-> r.g, rows |-> <<>>, err |-> "TypeError"]
            ELSE IF i.v >= size - 1
            THEN [g |-> r.g, rows |-> Append(rows, row), err |-> ""]
            ELSE async_fetchmany_loop(r.g, size, Append(rows, row))

(***************************************************************************)
(* State.                                                                  *)
(***************************************************************************)
VARIABLES
    kind,          \* "sync": Connection and Cursor; "async": AsyncConnection and AsyncCursor
    conn_closed,   \* BaseConnection.closed
    cursors,       \* BaseConnection.cursors, the cursors by their number
    closed,        \* BaseCursor.closed of every cursor
    description,   \* BaseCursor.description
    results,       \* BaseCursor._results
    arraysize,     \* BaseCursor.arraysize
    executed,      \* history: an execute on the cursor has returned
    last,          \* the last call: what it was, how it ended, what it returned
    chunks,        \* _aiter_lines: the chunks response.aiter_bytes delivers
    fed,           \* _aiter_lines: the number of chunks taken so far
    pending,       \* _aiter_lines: pending
    emitted,       \* _aiter_lines: the lines yielded so far
    finished,      \* _aiter_lines: the generator has returned
    conn,          \* the settings of the connection (BaseConnection.__init__)
    settings,      \* the settings of every cursor (BaseCursor.__init__)
    heap,          \* the dict objects held as context, by their identity
    threads,       \* the place of each caller thread inside its call
    arg,           \* the argument of the module-level function under study
    ret            \* what the function returned or raised, None before the call

lineVars == <<chunks, fed, pending, emitted, finished>>

cursorVars ==
    <<kind, conn_closed, cursors, closed, description, results, arraysize, executed, last>>

settingVars == <<conn, settings, heap>>

pureVars == <<arg, ret>>

threadVars == <<threads>>

vars == <<cursorVars, lineVars, settingVars, pureVars, threadVars>>

\* no thread is inside a call of the connection.  cursor: the place of the
\* thread that calls cursor() or execute(), op: its call, new: the cursor it
\* has constructed; close: the place of the thread that calls close(), i:
\* the place of its loop in self.cursors, swallowed: the Errors it swallowed
Idle ==
    [cursor |-> "idle", op |-> "", new |-> 0, close |-> "idle", i |-> 0,
     swallowed |-> 0]

CursorIds == 1..MaxCursors
Created == 1..Len(cursors)


Call(op, c, size, err, rows, n, posted) ==
    [op |-> op, cur |-> c, size |-> size, err |-> err, rows |-> rows, n |-> n,
     posted |-> posted, body |-> <<>>, payload |-> None]

\* the call raised before it did anything
Raise(op, c, size, err) ==
    /\ last' = Call(op, c, size, err, <<>>, 0, FALSE)
    /\ UNCHANGED <<threadVars, lineVars, pureVars, settingVars, executed, kind, conn_closed, cursors, closed, description, results, arraysize>>

\* Ran with the description taken from the first row the stream emits
Ran_typed(op, c, size, g, err, rows, n) ==
    /\ last' = Call(op, c, size, err, IF err = "" THEN rows ELSE <<>>, n, FALSE)
    /\ results' = [results EXCEPT ![c] = Some(g)]
    /\ description' =
          IF /\ results[c][1].src = "stream"
             /\ results[c][1].pos = 1
             /\ Len(results[c][1].items) >= 2
             /\ results[c][1].items[2] # <<>>
          THEN [description EXCEPT ![c] =
                    Some(get_description_from_row(
                            make_row(results[c][1].items[1], results[c][1].items[2])))]
          ELSE description
    /\ UNCHANGED <<threadVars, lineVars, pureVars, settingVars, executed, kind, conn_closed, cursors, closed, arraysize>>

\* the call ran on the row sequence of cursor c and left it as g
Ran(op, c, size, g, err, rows, n) ==
    /\ last' = Call(op, c, size, err, IF err = "" THEN rows ELSE <<>>, n, FALSE)
    /\ results' = [results EXCEPT ![c] = Some(g)]
    /\ UNCHANGED <<threadVars, lineVars, pureVars, settingVars, executed, kind, conn_closed, cursors, closed, description, arraysize>>

(***************************************************************************)
(* The settings of a connection and of its cursors.  A setting that may be *)
(* None is None or Some(value).  A context is a dict object: the setting   *)
(* holds its identity and heap its contents, the set of its keys, so that  *)
(* two holders of the same dict see each other's changes.                  *)
(***************************************************************************)
\* the dict the connection holds as self.context; the dict that
\* `context or {}` makes in the __init__ of cursor c has the identity c
ConnDict == 0
DictIds == {ConnDict} \cup CursorIds

\* the option names of a query context
ContextKeys == {"timeout", "priority"}

\* context or {} in BaseConnection.__init__, on the context argument of
\* connect(): the contents of the dict the connection holds
context_or_empty(context) == IF context = None THEN {} ELSE context[1]

\* the dict objects after connect(context = context)
Heap(context) ==
    [d \in DictIds |-> IF d = ConnDict THEN context_or_empty(context) ELSE {}]

\* BaseConnection.__init__: the attributes it sets from its arguments; the
\* url is the sequence of the pieces urlunparse joins, the context the
\* identity of the dict the connection holds
BaseConnection_init(host, port, path, scheme, user, password, context, header, ssl_verify_cert, ssl_client_cert, proxies, timeout) ==
    [url |-> <<scheme, "://", host, ":", port, path>>,
     context |-> ConnDict, header |-> header,
     user |-> user, password |-> password, ssl_verify_cert |-> ssl_verify_cert,
     ssl_client_cert |-> ssl_client_cert, proxies |-> proxies, timeout |-> timeout]

\* connect() with its defaults
connect ==
    BaseConnection_init("localhost", "8082", "/druid/v2/sql/", "http", None, None,
                        None, None, TRUE, None, None, None)

\* the contexts the modelled caller gives connect(...)
Contexts == {None, Some({"timeout"})}

\* the connections the modelled caller makes with connect(...)
Connections ==
    {BaseConnection_init("localhost", "8082", "/druid/v2/sql/", scheme, user,
                         password, context, None,
                         ssl_verify_cert, ssl_client_cert, proxies, timeout) :
        scheme \in {"http", "https"},
        user \in {None, Some("user")},
        password \in {None, Some("password")},
        context \in Contexts,
        ssl_verify_cert \in BOOLEAN,
        ssl_client_cert \in {None, Some("cert.pem")},
        proxies \in {None, Some("http://proxy:3128")},
        timeout \in {None, Some("30")}}

\* context or {} in BaseCursor.__init__ of cursor self, on the dict it is
\* given: that dict itself unless it is empty, a new dict if it is
cursor_context(self, context) ==
    IF heap[context] = {} THEN self ELSE context

\* BaseCursor.__init__ of cursor self: the settings it stores from its
\* arguments, in the order of its signature
BaseCursor_init(self, url, user, password, context, header, ssl_verify_cert, proxies, ssl_client_cert, timeout) ==
    [url |-> url, context |-> cursor_context(self, context), user |-> user,
     password |-> password, ssl_verify_cert |-> ssl_verify_cert,
     ssl_client_cert |-> ssl_client_cert, proxies |-> proxies,
     timeout |-> timeout]

\* Cursor(...) / AsyncCursor(...) as Connection.cursor and
\* AsyncConnection.cursor call it for the new cursor: the arguments are
\* positional
connection_cursor(self, cursor) ==
    BaseCursor_init(cursor, self.url, self.user, self.password, self.context,
                    self.header, self.ssl_verify_cert, self.ssl_client_cert,
                    self.proxies, self.timeout)

\* BaseCursor._prepare_headers_and_payload of a cursor of settings self:
\* the context is the contents of the dict the cursor holds when the
\* request is made (the query text is not part of the model)
prepare_headers_and_payload(self) ==
    [headers |-> [Authorization |-> self.user # None],
     payload |-> [context |-> heap[self.context], header |-> TRUE,
                  resultFormat |-> "arrayLines"]]

(***************************************************************************)
(* The decorators: the error each raises, "" when it lets the call pass.   *)
(***************************************************************************)
\* check_closed that lets every call pass
check_closed_off(self_closed) == ""

check_closed(self_closed) == IF self_closed THEN "AlreadyClosed" ELSE ""

check_result(self_results) == IF self_results = None THEN "BeforeExecute" ELSE ""

\* @check_result over @check_closed: check_result runs first
ResultThenClosed(c) ==
    IF check_result(results[c]) # "" THEN check_result(results[c])
    ELSE check_closed(closed[c])

(***************************************************************************)
(* BaseConnection.__init__ and BaseCursor.__init__.                        *)
(***************************************************************************)
Init ==
    /\ kind \in {"sync", "async"}
    /\ conn_closed = FALSE
    /\ cursors = <<>>
    /\ closed = [c \in CursorIds |-> FALSE]
    /\ description = [c \in CursorIds |-> None]
    /\ results = [c \in CursorIds |-> None]
    /\ arraysize = [c \in CursorIds |-> 1]
    /\ executed = [c \in CursorIds |-> FALSE]
    /\ last = Call("connect", 0, None, "", <<>>, 0, FALSE)
    /\ chunks = <<>>
    /\ fed = 0
    /\ pending = None
    /\ emitted = <<>>
    /\ finished = FALSE
    /\ conn = connect
    /\ settings = [c \in CursorIds |-> None]
    /\ heap = Heap(None)
    /\ threads = Idle
    /\ arg = None
    /\ ret = None

(***************************************************************************)
(* Cursor.execute / AsyncCursor.execute.                                   *)
(***************************************************************************)
\* set_description with the field names of the Row
set_description_renamed(field_names) ==
    [i \in 1..Len(field_names) |-> <<Rename(field_names)[i], "None">>]

set_description(field_names) ==
    [i \in 1..Len(field_names) |-> <<field_names[i], "None">>]

\* _stream_query up to its first yield, on the response r of the POST: the
\* error it raises, the description it leaves and the generator it is
\* (description is reset before the request is made)
stream_query(r) ==
    IF r.status # 200
    THEN [err |-> "ProgrammingError", description |-> None, gen |-> None]
    ELSE IF r.lines = <<>>
    THEN [err |-> "RuntimeError", description |-> None, gen |-> None]
    ELSE IF r.lines[1] = Blank
    THEN [err |-> "JSONDecodeError", description |-> None, gen |-> None]
    ELSE [err |-> "", description |-> Some(set_description(r.lines[1])),
          gen |-> Some(Stream(r.lines))]

async_stream_query(r) ==
    IF r.status # 200
    THEN [err |-> "ProgrammingError", description |-> None, gen |-> None]
    ELSE IF r.lines = <<>>
    THEN [err |-> "RuntimeError", description |-> None, gen |-> None]
    ELSE IF r.lines[1] = Blank
    THEN [err |-> "JSONDecodeError", description |-> None, gen |-> None]
    ELSE [err |-> "",
          description |-> Some([i \in 1..Len(r.lines[1]) |-> <<r.lines[1][i], "None">>]),
          gen |-> Some(Stream(r.lines))]

\* the rows that the row sequence the cursor holds has yet to yield: the
\* lines before the next blank line (what an execute finds and drops; the
\* call records their number)
unread(self_results) ==
    IF self_results = None \/ self_results[1].done THEN 0
    ELSE LET g == self_results[1] IN
         Cardinality({i \in (g.pos + 1)..Len(g.items) :
                        \A j \in (g.pos + 1)..i : g.items[j] # <<>>})

\* execute_body that chains the new rows after the row sequence it finds
execute_body_chained(op, c, r) ==
    LET q == IF kind = "sync" THEN stream_query(r) ELSE async_stream_query(r)
        old == IF results[c] = None THEN <<>>
               ELSE SubSeq(results[c][1].items, results[c][1].pos + 1,
                           results[c][1].pos + unread(results[c]))
    IN
    /\ description' = [description EXCEPT ![c] = q.description]
    /\ results' = [results EXCEPT ![c] =
            IF q.err = "" THEN Some(Stream(<<r.lines[1]>> \o old \o Tail(r.lines)))
            ELSE results[c]]
    /\ executed' = [executed EXCEPT ![c] = executed[c] \/ q.err = ""]
    /\ last' = [Call(op, c, None, q.err, <<>>, unread(results[c]), TRUE)
                    EXCEPT !.body = r.lines,
                           !.payload = Some(prepare_headers_and_payload(settings'[c][1]).payload)]

\* execute_body with self._results assigned before the first next()
execute_body_early(op, c, r) ==
    LET q == IF kind = "sync" THEN stream_query(r) ELSE async_stream_query(r) IN
    /\ description' = [description EXCEPT ![c] = q.description]
    /\ results' = [results EXCEPT ![c] =
            IF q.err = "" THEN q.gen
            ELSE Some([src |-> "stream", items |-> r.lines, pos |-> 0, done |-> TRUE])]
    /\ executed' = [executed EXCEPT ![c] = executed[c] \/ q.err = ""]
    /\ last' = [Call(op, c, None, q.err, <<>>, unread(results[c]), TRUE)
                    EXCEPT !.body = r.lines,
                           !.payload = Some(prepare_headers_and_payload(settings'[c][1]).payload)]

\* the body of execute on the open cursor c: self._results is assigned only
\* when the first next() of the generator returned
execute_body(op, c, r) ==
    LET q == IF kind = "sync" THEN stream_query(r) ELSE async_stream_query(r) IN
    /\ description' = [description EXCEPT ![c] = q.description]
    /\ results' = [results EXCEPT ![c] = IF q.err = "" THEN q.gen ELSE results[c]]
    /\ executed' = [executed EXCEPT ![c] = executed[c] \/ q.err = ""]
    /\ last' = [Call(op, c, None, q.err, <<>>, unread(results[c]), TRUE)
                    EXCEPT !.body = r.lines,
                           !.payload = Some(prepare_headers_and_payload(settings'[c][1]).payload)]

Execute(c, R) ==
    /\ c \in Created
    /\ IF check_closed(closed[c]) # ""
       THEN Raise("execute", c, None, check_closed(closed[c]))
       ELSE \E r \in R :
               /\ UNCHANGED <<threadVars, lineVars, pureVars, settingVars, kind, conn_closed, cursors, closed, arraysize>>
               /\ execute_body("execute", c, r)

\* Executemany without its @check_closed
Executemany_unchecked(c) ==
    /\ c \in Created
    /\ Raise("executemany", c, None, "NotSupported")

Executemany(c) ==
    /\ c \in Created
    /\ IF check_closed(closed[c]) # ""
       THEN Raise("executemany", c, None, check_closed(closed[c]))
       ELSE Raise("executemany", c, None, "NotSupported")

(***************************************************************************)
(* The fetch operations.                                                   *)
(***************************************************************************)
\* __next__ / __anext__
Next_(c) ==
    /\ c \in Created
    /\ IF ResultThenClosed(c) # ""
       THEN Raise("next", c, None, ResultThenClosed(c))
       ELSE LET r == GenNext(results[c][1]) IN
            Ran("next", c, None, r.g,
                IF r.out = "stop" THEN "StopIteration" ELSE Raised(r.out),
                <<r.item>>, 0)

\* __iter__ / __aiter__
Iter(c) ==
    /\ c \in Created
    /\ IF check_closed(closed[c]) # ""
       THEN Raise("iter", c, None, check_closed(closed[c]))
       ELSE Raise("iter", c, None, "")

Fetchone(c) ==
    /\ c \in Created
    /\ IF ResultThenClosed(c) # ""
       THEN Raise("fetchone", c, None, ResultThenClosed(c))
       ELSE LET r == GenNext(results[c][1]) IN
            Ran("fetchone", c, None, r.g, Raised(r.out),
                IF r.out = "row" THEN <<r.item>> ELSE <<>>, 0)

\* size = size or self.arraysize
size_or_arraysize(size, self_arraysize) ==
    IF size = None \/ size = Some(0) THEN self_arraysize ELSE size[1]

Fetchmany(c, size) ==
    /\ c \in Created
    /\ IF ResultThenClosed(c) # ""
       THEN Raise("fetchmany", c, size, ResultThenClosed(c))
       ELSE LET n == size_or_arraysize(size, arraysize[c])
                r == IF kind = "sync"
                     THEN islice(results[c][1], n)
                     ELSE async_fetchmany_loop(results[c][1], n, <<>>)
            IN Ran("fetchmany", c, size, r.g, r.err, r.rows, 0)

Fetchall(c) ==
    /\ c \in Created
    /\ IF ResultThenClosed(c) # ""
       THEN Raise("fetchall", c, None, ResultThenClosed(c))
       ELSE LET r == list(results[c][1]) IN
            Ran("fetchall", c, None, r.g, r.err, r.rows, 0)

\* Rowcount that leaves the drained row sequence in place
Rowcount_no_rewrap(c) ==
    /\ c \in Created
    /\ IF ResultThenClosed(c) # ""
       THEN Raise("rowcount", c, None, ResultThenClosed(c))
       ELSE LET r == list(results[c][1]) IN
            Ran("rowcount", c, None, r.g, r.err, <<>>, Len(r.rows))

\* the rowcount property: the row sequence is drained and, unless draining
\* raised, replaced by an iterator over the rows found
Rowcount(c) ==
    /\ c \in Created
    /\ IF ResultThenClosed(c) # ""
       THEN Raise("rowcount", c, None, ResultThenClosed(c))
       ELSE LET r == list(results[c][1]) IN
            Ran("rowcount", c, None, IF r.err = "" THEN ListIter(r.rows) ELSE r.g,
                r.err, <<>>, Len(r.rows))

\* cursor.arraysize = n
SetArraysize(c, n) ==
    /\ c \in Created
    /\ arraysize[c] # n
    /\ arraysize' = [arraysize EXCEPT ![c] = n]
    /\ last' = Call("arraysize", c, Some(n), "", <<>>, 0, FALSE)
    /\ UNCHANGED <<threadVars, lineVars, pureVars, settingVars, executed, kind, conn_closed, cursors, closed, description, results>>

\* BaseCursor.close without its @check_closed
Close_unchecked(c) ==
    /\ c \in Created
    /\ closed' = [closed EXCEPT ![c] = TRUE]
    /\ last' = Call("close", c, None, "", <<>>, 0, FALSE)
    /\ UNCHANGED <<threadVars, lineVars, pureVars, settingVars, executed, kind, conn_closed, cursors, description, results, arraysize>>

\* BaseCursor.close
Close(c) ==
    /\ c \in Created
    /\ IF check_closed(closed[c]) # ""
       THEN Raise("close", c, None, check_closed(closed[c]))
       ELSE /\ closed' = [closed EXCEPT ![c] = TRUE]
            /\ last' = Call("close", c, None, "", <<>>, 0, FALSE)
            /\ UNCHANGED <<threadVars, lineVars, pureVars, settingVars, executed, kind, conn_closed, cursors, description, results, arraysize>>

(***************************************************************************)
(* Connection / AsyncConnection.                                           *)
(***************************************************************************)
\* ConnCursor without its @check_closed
ConnCursor_unchecked(N) ==
    /\ Len(cursors) < N
    /\ cursors' = Append(cursors, Len(cursors) + 1)
    /\ settings' = [settings EXCEPT ![Len(cursors) + 1] = Some(connection_cursor(conn, Len(cursors) + 1))]
    /\ last' = Call("conn.cursor", Len(cursors) + 1, None, "", <<>>, 0, FALSE)
    /\ UNCHANGED <<threadVars, lineVars, pureVars, conn, heap, executed, kind, conn_closed, closed, description, results, arraysize>>

\* Connection.cursor: at most N cursors are created
ConnCursor(N) ==
    IF check_closed(conn_closed) # ""
    THEN Raise("conn.cursor", 0, None, check_closed(conn_closed))
    ELSE /\ Len(cursors) < N
         /\ cursors' = Append(cursors, Len(cursors) + 1)
         /\ settings' = [settings EXCEPT ![Len(cursors) + 1] = Some(connection_cursor(conn, Len(cursors) + 1))]
         /\ last' = Call("conn.cursor", Len(cursors) + 1, None, "", <<>>, 0, FALSE)
         /\ UNCHANGED <<threadVars, lineVars, pureVars, conn, heap, executed, kind, conn_closed, closed, description, results, arraysize>>

\* Connection.execute: self.cursor(), then cursor.execute
ConnExecute(N, R) ==
    IF check_closed(conn_closed) # ""
    THEN Raise("conn.execute", 0, None, check_closed(conn_closed))
    ELSE /\ Len(cursors) < N
         /\ cursors' = Append(cursors, Len(cursors) + 1)
         /\ settings' = [settings EXCEPT ![Len(cursors) + 1] = Some(connection_cursor(conn, Len(cursors) + 1))]
         /\ \E r \in R : execute_body("conn.execute", Len(cursors) + 1, r)
         /\ UNCHANGED <<threadVars, lineVars, pureVars, conn, heap, kind, conn_closed, closed, arraysize>>

\* close_loop without the try/except around cursor.close()
RECURSIVE close_loop_no_except(_, _, _)
close_loop_no_except(registered, i, flags) ==
    IF i > Len(registered)
    THEN [flags |-> flags, swallowed |-> 0, err |-> ""]
    ELSE IF check_closed(flags[registered[i]]) # ""
    THEN [flags |-> flags, swallowed |-> 0, err |-> check_closed(flags[registered[i]])]
    ELSE close_loop_no_except(registered, i + 1, [flags EXCEPT ![registered[i]] = TRUE])

\* the loop of BaseConnection.close over the cursors from the i-th on:
\* cursor.close() on each, the Error of an already closed one swallowed.
\* flags: the closed flags it leaves, swallowed: the Errors it swallowed,
\* err: the error that leaves the loop
RECURSIVE close_loop(_, _, _)
close_loop(registered, i, flags) ==
    IF i > Len(registered)
    THEN [flags |-> flags, swallowed |-> 0, err |-> ""]
    ELSE IF check_closed(flags[registered[i]]) # ""
    THEN LET rest == close_loop(registered, i + 1, flags) IN
         [rest EXCEPT !.swallowed = rest.swallowed + 1]
    ELSE close_loop(registered, i + 1, [flags EXCEPT ![registered[i]] = TRUE])

\* BaseConnection.close; the call records the number of swallowed Errors
ConnClose ==
    IF check_closed(conn_closed) # ""
    THEN Raise("conn.close", 0, None, check_closed(conn_closed))
    ELSE LET r == close_loop(cursors, 1, closed) IN
         /\ conn_closed' = TRUE
         /\ closed' = r.flags
         /\ last' = Call("conn.close", 0, None, r.err, <<>>, r.swallowed, FALSE)
         /\ UNCHANGED <<threadVars, lineVars, pureVars, settingVars, executed, kind, cursors, description, results, arraysize>>

ConnCommit ==
    IF check_closed(conn_closed) # ""
    THEN Raise("conn.commit", 0, None, check_closed(conn_closed))
    ELSE Raise("conn.commit", 0, None, "")

(***************************************************************************)
(* Specifications.  Spec: one cursor of the connection, over every         *)
(* response of up to MaxRows rows.  SpecConn: up to MaxCursors cursors,     *)
(* over a one-row result and a failure.                                    *)
(***************************************************************************)
\* the values the modelled caller gives arraysize
ArraySizes == {1, 2}

\* the size arguments of fetchmany
Sizes == {None} \cup {Some(n) : n \in 0..MaxSize}

CursorOps(c, R) ==
    \/ Execute(c, R)
    \/ Executemany(c)
    \/ Next_(c)
    \/ Iter(c)
    \/ Fetchone(c)
    \/ \E size \in Sizes : Fetchmany(c, size)
    \/ Fetchall(c)
    \/ Rowcount(c)
    \/ \E n \in ArraySizes : SetArraysize(c, n)
    \/ Close(c)

\* the responses the modelled engine gives
AllResponses == Responses(HeaderPool, MaxRows)

\* header lines with names that namedtuple renames: a leading underscore, a
\* duplicate
RenamedHeaders == {<<"_name">>, <<"name", "name">>}

\* the data lines of a result of width w and k rows: the first column is a
\* value of every kind in the first row and the number of the row in the
\* further rows, the further columns hold a string
TypedRows(w, k) ==
    {[j \in 1..k |-> [i \in 1..w |-> IF i > 1 THEN StrV(0)
                                     ELSE IF j = 1 THEN v
                                     ELSE IntV(j - 1)]] : v \in TypedValues}

\* results with renamed columns and cells of every kind, and a failure
TypedResponses ==
    UNION {{[status |-> 200, lines |-> <<h>> \o rows \o tail] :
                rows \in UNION {TypedRows(Len(h), k) : k \in 0..MaxRows},
                tail \in Tails(Len(h))} :
           h \in RenamedHeaders}
    \cup {[status |-> 500, lines |-> <<>>]}

Next ==
    \/ ConnCursor(1)
    \/ ConnExecute(1, AllResponses)
    \/ ConnClose
    \/ ConnCommit
    \/ CursorOps(1, AllResponses)

Spec == Init /\ [][Next]_vars

\* one cursor, over the results with renamed columns and typed cells
NextRows ==
    \/ ConnCursor(1)
    \/ Execute(1, TypedResponses)
    \/ Fetchone(1)
    \/ \E size \in Sizes : Fetchmany(1, size)
    \/ Fetchall(1)
    \/ Rowcount(1)
    \/ \E n \in ArraySizes : SetArraysize(1, n)
    \/ Close(1)

SpecRows == Init /\ [][NextRows]_vars

\* a one-row result and a failure
ConnResponses ==
    {[status |-> 200, lines |-> <<<<"name">>, <<StrV(0)>>, Blank>>],
     [status |-> 500, lines |-> <<>>]}

NextConn ==
    \/ ConnCursor(MaxCursors)
    \/ ConnExecute(MaxCursors, ConnResponses)
    \/ ConnClose
    \/ ConnCommit
    \/ \E c \in CursorIds :
          \/ Execute(c, ConnResponses)
          \/ Fetchone(c)
          \/ Close(c)

SpecConn == Init /\ [][NextConn]_vars

\* one cursor under every operation of a cursor, over a one-row result and
\* a failure; the connection closes it or the caller does
NextClosed ==
    \/ ConnCursor(1)
    \/ ConnClose
    \/ CursorOps(1, ConnResponses)

SpecClosed == Init /\ [][NextClosed]_vars

\* connections of every setting: cursors are created and closed
InitSettings ==
    /\ kind \in {"sync", "async"}
    /\ conn_closed = FALSE
    /\ cursors = <<>>
    /\ closed = [c \in CursorIds |-> FALSE]
    /\ description = [c \in CursorIds |-> None]
    /\ results = [c \in CursorIds |-> None]
    /\ arraysize = [c \in CursorIds |-> 1]
    /\ executed = [c \in CursorIds |-> FALSE]
    /\ last = Call("connect", 0, None, "", <<>>, 0, FALSE)
    /\ chunks = <<>>
    /\ fed = 0
    /\ pending = None
    /\ emitted = <<>>
    /\ finished = FALSE
    /\ conn \in Connections
    /\ settings = [c \in CursorIds |-> None]
    /\ heap \in {Heap(context) : context \in Contexts}
    /\ threads = Idle
    /\ arg = None
    /\ ret = None

NextSettings ==
    \/ ConnCursor(MaxCursors)
    \/ ConnClose
    \/ \E c \in CursorIds : Close(c)

SpecSettings == InitSettings /\ [][NextSettings]_vars

\* the code of the caller changes, in place, the dict that a holder has as
\* its context (holder.context[k] = ..., del holder.context[k]): holder 0
\* is the connection, holder c the cursor c
SetContext(holder, k) ==
    /\ holder = 0 \/ holder \in Created
    /\ LET d == IF holder = 0 THEN conn.context ELSE settings[holder][1].context IN
       heap' = [heap EXCEPT ![d] = IF k \in @ THEN @ \ {k} ELSE @ \cup {k}]
    /\ last' = Call("context", holder, None, "", <<>>, 0, FALSE)
    /\ UNCHANGED <<threadVars, lineVars, pureVars, conn, settings, executed, kind, conn_closed, cursors, closed, description, results, arraysize>>

\* connect(context = ...) with an empty and with a non-empty context
InitContext ==
    /\ kind \in {"sync", "async"}
    /\ conn_closed = FALSE
    /\ cursors = <<>>
    /\ closed = [c \in CursorIds |-> FALSE]
    /\ description = [c \in CursorIds |-> None]
    /\ results = [c \in CursorIds |-> None]
    /\ arraysize = [c \in CursorIds |-> 1]
    /\ executed = [c \in CursorIds |-> FALSE]
    /\ last = Call("connect", 0, None, "", <<>>, 0, FALSE)
    /\ chunks = <<>>
    /\ fed = 0
    /\ pending = None
    /\ emitted = <<>>
    /\ finished = FALSE
    /\ \E context \in Contexts \cup {Some({})} :
          /\ conn = BaseConnection_init("localhost", "8082", "/druid/v2/sql/", "http",
                                        None, None, context, None, TRUE, None, None, None)
          /\ heap = Heap(context)
    /\ threads = Idle
    /\ settings = [c \in CursorIds |-> None]
    /\ arg = None
    /\ ret = None

\* cursors are created and execute, the contexts change in between
NextContext ==
    \/ ConnCursor(MaxCursors)
    \/ \E c \in CursorIds : Execute(c, ConnResponses)
    \/ \E holder \in DictIds, k \in ContextKeys : SetContext(holder, k)

SpecContext == InitContext /\ [][NextContext]_vars

(***************************************************************************)
(* Connection.cursor, Connection.execute and BaseConnection.close called   *)
(* from two threads of the caller: one thread calls cursor() or execute(), *)
(* the other close().  A step is one statement of the call; the threads    *)
(* take their steps in any order.  Appending to a list and the next() of   *)
(* its iterator are single steps, and an iterator over a list sees what is  *)
(* appended before it reaches the end.                                     *)
(***************************************************************************)
\* the @check_closed of cursor() or of execute(), on entry
ThreadEnter(op) ==
    /\ threads.cursor = "idle"
    /\ Len(cursors) < MaxCursors
    /\ IF check_closed(conn_closed) # ""
       THEN Raise(op, 0, None, check_closed(conn_closed))
       ELSE /\ threads' = [threads EXCEPT
                              !.cursor = IF op = "conn.execute" THEN "cursor"
                                         ELSE "construct",
                              !.op = op]
            /\ UNCHANGED <<cursorVars, lineVars, pureVars, settingVars>>

\* execute(): the @check_closed of the self.cursor() it calls
ThreadCursorCheck ==
    /\ threads.cursor = "cursor"
    /\ IF check_closed(conn_closed) # ""
       THEN /\ threads' = [threads EXCEPT !.cursor = "idle"]
            /\ last' = Call(threads.op, 0, None, check_closed(conn_closed), <<>>, 0, FALSE)
            /\ UNCHANGED <<lineVars, pureVars, settingVars, executed, kind, conn_closed, cursors, closed, description, results, arraysize>>
       ELSE /\ threads' = [threads EXCEPT !.cursor = "construct"]
            /\ UNCHANGED <<cursorVars, lineVars, pureVars, settingVars>>

\* cursor = Cursor(...): the new cursor is open and not yet in self.cursors
ThreadConstruct ==
    /\ threads.cursor = "construct"
    /\ LET new == Len(cursors) + 1 IN
       /\ settings' = [settings EXCEPT ![new] = Some(connection_cursor(conn, new))]
       /\ threads' = [threads EXCEPT !.cursor = "append", !.new = new]
    /\ UNCHANGED <<cursorVars, lineVars, pureVars, conn, heap>>

\* self.cursors.append(cursor); cursor() returns the cursor
ThreadAppend ==
    /\ threads.cursor = "append"
    /\ cursors' = Append(cursors, threads.new)
    /\ IF threads.op = "conn.execute"
       THEN /\ threads' = [threads EXCEPT !.cursor = "execute"]
            /\ UNCHANGED last
       ELSE /\ threads' = [threads EXCEPT !.cursor = "idle"]
            /\ last' = Call("conn.cursor", threads.new, None, "", <<>>, 0, FALSE)
    /\ UNCHANGED <<lineVars, pureVars, settingVars, executed, kind, conn_closed, closed, description, results, arraysize>>

\* execute(): cursor.execute(operation, parameters) on the new cursor
ThreadExecute(R) ==
    /\ threads.cursor = "execute"
    /\ threads' = [threads EXCEPT !.cursor = "idle"]
    /\ UNCHANGED <<lineVars, pureVars, settingVars, kind, conn_closed, cursors, closed, arraysize>>
    /\ IF check_closed(closed[threads.new]) # ""
       THEN /\ last' = Call("conn.execute", threads.new, None, check_closed(closed[threads.new]), <<>>, 0, FALSE)
            /\ UNCHANGED <<executed, description, results>>
       ELSE \E r \in R : execute_body("conn.execute", threads.new, r)

\* the @check_closed of close(), on entry
CloseEnter ==
    /\ threads.close \in {"idle", "returned"}
    /\ IF check_closed(conn_closed) # ""
       THEN Raise("conn.close", 0, None, check_closed(conn_closed))
       ELSE /\ threads' = [threads EXCEPT !.close = "set"]
            /\ UNCHANGED <<cursorVars, lineVars, pureVars, settingVars>>

\* self.closed = True, and the loop over self.cursors begins
CloseSet ==
    /\ threads.close = "set"
    /\ conn_closed' = TRUE
    /\ threads' = [threads EXCEPT !.close = "loop", !.i = 1, !.swallowed = 0]
    /\ UNCHANGED <<lineVars, pureVars, settingVars, executed, kind, cursors, closed, description, results, arraysize, last>>

\* one turn of the loop: cursor.close() on the next cursor of the list, its
\* Error swallowed; close() returns when the list has no further cursor
CloseLoop ==
    /\ threads.close = "loop"
    /\ IF threads.i > Len(cursors)
       THEN /\ threads' = [threads EXCEPT !.close = "returned"]
            /\ last' = Call("conn.close", 0, None, "", <<>>, threads.swallowed, FALSE)
            /\ UNCHANGED closed
       ELSE LET r == close_loop(<<cursors[threads.i]>>, 1, closed) IN
            /\ closed' = r.flags
            /\ threads' = [threads EXCEPT !.i = @ + 1,
                                          !.swallowed = @ + r.swallowed]
            /\ UNCHANGED last
    /\ UNCHANGED <<lineVars, pureVars, settingVars, executed, kind, conn_closed, cursors, description, results, arraysize>>

\* a thread calls cursor() or execute() and a thread calls close(), the
\* caller closes cursors it holds
NextThreads ==
    \/ \E op \in {"conn.cursor", "conn.execute"} : ThreadEnter(op)
    \/ ThreadCursorCheck
    \/ ThreadConstruct
    \/ ThreadAppend
    \/ ThreadExecute(ConnResponses)
    \/ CloseEnter
    \/ CloseSet
    \/ CloseLoop
    \/ \E c \in CursorIds : Close(c)

SpecThreads == Init /\ [][NextThreads]_vars

(***************************************************************************)
(* The line reassembler AsyncCursor._aiter_lines, on byte chunks.  A byte  *)
(* is a letter or one of the terminator bytes LF and CR.                   *)
(***************************************************************************)
Bytes == {"a", "LF", "CR"}

ChunkPool == SeqsUpTo(Bytes, MaxChunkLen)

\* bytes.splitlines(): the lines of s without their terminators \n, \r, \r\n;
\* line is the line begun so far
RECURSIVE splitlines_from(_, _)
splitlines_from(s, line) ==
    IF s = <<>>
    THEN IF line = <<>> THEN <<>> ELSE <<line>>
    ELSE IF Head(s) = "LF"
    THEN <<line>> \o splitlines_from(Tail(s), <<>>)
    ELSE IF Head(s) = "CR"
    THEN IF Len(s) >= 2 /\ s[2] = "LF"
         THEN <<line>> \o splitlines_from(Tail(Tail(s)), <<>>)
         ELSE <<line>> \o splitlines_from(Tail(s), <<>>)
    ELSE splitlines_from(Tail(s), Append(line, Head(s)))

splitlines(s) == splitlines_from(s, <<>>)

Front(s) == SubSeq(s, 1, Len(s) - 1)

\* one iteration of the loop over response.aiter_bytes(): the new pending and
\* the lines yielded for the chunk
aiter_lines_step(pend, chunk0) ==
    LET chunk == IF pend # None THEN pend[1] \o chunk0 ELSE chunk0
        lines == splitlines(chunk)
    IN IF /\ lines # <<>>
          /\ lines[Len(lines)] # <<>>
          /\ chunk # <<>>
          /\ lines[Len(lines)][Len(lines[Len(lines)])] = chunk[Len(chunk)]
       THEN [pending |-> Some(lines[Len(lines)]), lines |-> Front(lines)]
       ELSE [pending |-> None, lines |-> lines]

InitLines ==
    /\ kind = "async"
    /\ conn_closed = FALSE
    /\ cursors = <<>>
    /\ closed = [c \in CursorIds |-> FALSE]
    /\ description = [c \in CursorIds |-> None]
    /\ results = [c \in CursorIds |-> None]
    /\ arraysize = [c \in CursorIds |-> 1]
    /\ executed = [c \in CursorIds |-> FALSE]
    /\ last = Call("connect", 0, None, "", <<>>, 0, FALSE)
    /\ chunks \in SeqsUpTo(ChunkPool, MaxChunks)
    /\ fed = 0
    /\ pending = None
    /\ emitted = <<>>
    /\ finished = FALSE
    /\ conn = connect
    /\ settings = [c \in CursorIds |-> None]
    /\ heap = Heap(None)
    /\ threads = Idle
    /\ arg = None
    /\ ret = None

\* the next chunk arrives
AiterChunk ==
    /\ fed < Len(chunks)
    /\ LET r == aiter_lines_step(pending, chunks[fed + 1]) IN
        /\ pending' = r.pending
        /\ emitted' = emitted \o r.lines
    /\ fed' = fed + 1
    /\ UNCHANGED <<threadVars, cursorVars, pureVars, settingVars, chunks, finished>>

\* AiterEnd without the yield of what is pending
AiterEnd_no_flush ==
    /\ fed = Len(chunks)
    /\ ~finished
    /\ emitted' = emitted
    /\ finished' = TRUE
    /\ UNCHANGED <<threadVars, cursorVars, pureVars, settingVars, chunks, fed, pending>>

\* the chunks have ended: what is pending is the last line
AiterEnd ==
    /\ fed = Len(chunks)
    /\ ~finished
    /\ emitted' = IF pending # None THEN Append(emitted, pending[1]) ELSE emitted
    /\ finished' = TRUE
    /\ UNCHANGED <<threadVars, cursorVars, pureVars, settingVars, chunks, fed, pending>>

NextLines == AiterChunk \/ AiterEnd

SpecLines == InitLines /\ [][NextLines]_vars

RECURSIVE Concat(_)
Concat(ss) == IF ss = <<>> THEN <<>> ELSE Head(ss) \o Concat(Tail(ss))

(***************************************************************************)
(* The module-level functions and the static method _handle_http_error are *)
(* studied one call at a time: arg is the argument, drawn when the run     *)
(* starts, and ret what the call returned or raised.                       *)
(***************************************************************************)
\* every object of the library as it is before the call
Untouched ==
    /\ kind \in {"sync", "async"}
    /\ conn_closed = FALSE
    /\ cursors = <<>>
    /\ closed = [c \in CursorIds |-> FALSE]
    /\ description = [c \in CursorIds |-> None]
    /\ results = [c \in CursorIds |-> None]
    /\ arraysize = [c \in CursorIds |-> 1]
    /\ executed = [c \in CursorIds |-> FALSE]
    /\ last = Call("connect", 0, None, "", <<>>, 0, FALSE)
    /\ chunks = <<>>
    /\ fed = 0
    /\ pending = None
    /\ emitted = <<>>
    /\ finished = FALSE
    /\ conn = connect
    /\ settings = [c \in CursorIds |-> None]
    /\ heap = Heap(None)
    /\ threads = Idle

(***************************************************************************)
(* BaseCursor._handle_http_error.  The body of a response is text that is  *)
(* not JSON, a JSON object (a function from its keys to their texts), or   *)
(* JSON that is not an object.  A message is the sequence of its pieces.   *)
(***************************************************************************)
ErrorKeys == {"error", "errorClass", "errorCode", "errorMessage"}

\* the texts of the fields and of a raw body
ErrorTexts == {"a", "b"}

ErrorPayloads == UNION {[K -> ErrorTexts] : K \in SUBSET ErrorKeys}

ErrorBodies ==
    {[json |-> "object", payload |-> p, text |-> "{}"] : p \in ErrorPayloads}
    \cup {[json |-> "invalid", payload |-> <<>>, text |-> t] : t \in ErrorTexts}
    \cup {[json |-> "array", payload |-> <<>>, text |-> "[]"]}

ErrorResponses == {[status |-> st, body |-> b] : st \in {400, 500}, b \in ErrorBodies}

\* "{error} ({errorClass}): {errorMessage}".format(**payload)
format_msg(payload) ==
    IF {"error", "errorClass", "errorMessage"} \subseteq DOMAIN payload
    THEN [exc |-> "ProgrammingError",
          msg |-> <<payload["error"], " (", payload["errorClass"], "): ",
                    payload["errorMessage"]>>]
    ELSE [exc |-> "KeyError", msg |-> <<>>]

\* the payload of the except branch
unknown_error(response) ==
    ("error" :> "Unknown error") @@ ("errorClass" :> "Unknown")
        @@ ("errorMessage" :> response.body.text)

\* handle_http_error with errorCode copied over a present errorClass
handle_http_error_code_first(response) ==
    IF response.body.json = "array"
    THEN [exc |-> "TypeError", msg |-> <<>>]
    ELSE LET payload == IF response.body.json = "invalid"
                        THEN unknown_error(response)
                        ELSE response.body.payload
         IN IF "errorCode" \in DOMAIN payload
            THEN format_msg(("errorClass" :> payload["errorCode"]) @@ payload)
            ELSE format_msg(payload)

\* what _handle_http_error raises: the exception and its message
handle_http_error(response) ==
    IF response.body.json = "array"
    THEN [exc |-> "TypeError", msg |-> <<>>]
    ELSE LET payload == IF response.body.json = "invalid"
                        THEN unknown_error(response)
                        ELSE response.body.payload
         IN IF "errorClass" \notin DOMAIN payload /\ "errorCode" \in DOMAIN payload
            THEN format_msg(("errorClass" :> payload["errorCode"]) @@ payload)
            ELSE format_msg(payload)

InitError ==
    /\ Untouched
    /\ arg \in {Some(r) : r \in ErrorResponses}
    /\ ret = None

HandleHttpError ==
    /\ ret = None
    /\ ret' = Some(handle_http_error(arg[1]))
    /\ UNCHANGED <<threadVars, cursorVars, lineVars, settingVars, arg>>

NextError == HandleHttpError

SpecError == InitError /\ [][NextError]_vars

(***************************************************************************)
(* apply_parameters and escape.  A text is the sequence of its characters; *)
(* in a template a placeholder %(key)s and the escape %% are one symbol    *)
(* each, and the words TRUE and FALSE are one symbol each.  A parameter    *)
(* value is a str, a bool (n is the number Python takes it for), an int, a *)
(* float (n its whole part, s the digits of its fraction) or a list.       *)
(***************************************************************************)
StrP(s) == [t |-> "str", s |-> s, n |-> 0, elems |-> <<>>]
BoolP(n) == [t |-> "bool", s |-> <<>>, n |-> n, elems |-> <<>>]
IntP(n) == [t |-> "int", s |-> <<>>, n |-> n, elems |-> <<>>]
FloatP(n, s) == [t |-> "float", s |-> s, n |-> n, elems |-> <<>>]
ListP(elems) == [t |-> "list", s |-> <<>>, n |-> 0, elems |-> elems]

\* the values the modelled caller passes
StrChars == {"a", "'", "*"}
Scalars ==
    {StrP(s) : s \in SeqsUpTo(StrChars, MaxStr)}
    \cup {BoolP(0), BoolP(1), IntP(0), IntP(7), IntP(10), FloatP(1, <<"5">>)}
ListElems == {StrP(<<"a">>), StrP(<<"'">>), StrP(<<"*">>), BoolP(1), IntP(7)}
ParamValues == Scalars \cup {ListP(e) : e \in SeqsUpTo(ListElems, MaxList)}

\* the key of each placeholder symbol
Placeholders == ("%(k)s" :> "k") @@ ("%(j)s" :> "j")

Templates == SeqsUpTo({"a", "%%", "%(k)s", "%(j)s"}, MaxTemplate)

\* parameters: None, the empty dict, or a dict with the key k
ParamMaps == {None, Some(<<>>)} \cup {Some("k" :> v) : v \in ParamValues}

\* str(n) of a natural number
RECURSIVE decimal(_)
decimal(n) ==
    LET digit == <<"0", "1", "2", "3", "4", "5", "6", "7", "8", "9">>[(n % 10) + 1]
    IN IF n < 10 THEN <<digit>> ELSE Append(decimal(n \div 10), digit)

\* str(value), as the %s conversion takes it
str(value) ==
    IF value.t = "str" THEN value.s
    ELSE IF value.t = "int" THEN decimal(value.n)
    ELSE IF value.t = "float" THEN decimal(value.n) \o <<".">> \o value.s
    ELSE IF value.t = "bool" THEN <<IF value.n = 1 THEN "True" ELSE "False">>
    ELSE <<"[...]">>

\* s.replace("'", "''")
RECURSIVE replace_quote(_)
replace_quote(s) ==
    IF s = <<>> THEN <<>>
    ELSE (IF Head(s) = "'" THEN <<"'", "'">> ELSE <<Head(s)>>)
         \o replace_quote(Tail(s))

\* ", ".join(parts): the TypeError of a part that is not a str
RECURSIVE join(_)
join(parts) ==
    IF parts = <<>> THEN [exc |-> "", val |-> StrP(<<>>)]
    ELSE IF Head(parts).t # "str" THEN [exc |-> "TypeError", val |-> StrP(<<>>)]
    ELSE IF Len(parts) = 1 THEN [exc |-> "", val |-> Head(parts)]
    ELSE LET rest == join(Tail(parts)) IN
         [exc |-> rest.exc,
          val |-> StrP(Head(parts).s \o <<",", " ">> \o rest.val.s)]

\* escape of a value that is not a list, with the bool branch after the
\* number branch
escape_scalar_number_first(value) ==
    IF value = StrP(<<"*">>) THEN value
    ELSE IF value.t = "str" THEN StrP(<<"'">> \o replace_quote(value.s) \o <<"'">>)
    ELSE IF value.t \in {"int", "float", "bool"} THEN value
    ELSE value

\* escape of a value that is not a list
escape_scalar(value) ==
    IF value = StrP(<<"*">>) THEN value
    ELSE IF value.t = "str" THEN StrP(<<"'">> \o replace_quote(value.s) \o <<"'">>)
    ELSE IF value.t = "bool" THEN StrP(<<IF value.n = 1 THEN "TRUE" ELSE "FALSE">>)
    ELSE IF value.t \in {"int", "float"} THEN value
    ELSE value

\* escape(value): what it returns, or the exception of the join
escape(value) ==
    IF value.t = "list"
    THEN join([i \in 1..Len(value.elems) |-> escape_scalar(value.elems[i])])
    ELSE [exc |-> "", val |-> escape_scalar(value)]

\* operation % escaped_parameters
RECURSIVE percent(_, _)
percent(operation, escaped_parameters) ==
    IF operation = <<>> THEN [exc |-> "", text |-> <<>>]
    ELSE LET symbol == Head(operation)
             rest == percent(Tail(operation), escaped_parameters)
         IN IF symbol \in DOMAIN Placeholders
            THEN IF Placeholders[symbol] \notin DOMAIN escaped_parameters
                 THEN [exc |-> "KeyError", text |-> <<>>]
                 ELSE [exc |-> rest.exc,
                       text |-> str(escaped_parameters[Placeholders[symbol]]) \o rest.text]
            ELSE [exc |-> rest.exc,
                  text |-> <<IF symbol = "%%" THEN "%" ELSE symbol>> \o rest.text]

apply_parameters(operation, parameters) ==
    IF parameters = None \/ DOMAIN parameters[1] = {}
    THEN [exc |-> "", text |-> operation]
    ELSE LET escaped == [key \in DOMAIN parameters[1] |-> escape(parameters[1][key])]
         IN IF \E key \in DOMAIN escaped : escaped[key].exc # ""
            THEN [exc |-> "TypeError", text |-> <<>>]
            ELSE LET r == percent(operation, [key \in DOMAIN escaped |-> escaped[key].val])
                 IN [exc |-> r.exc, text |-> IF r.exc = "" THEN r.text ELSE <<>>]

InitParams ==
    /\ Untouched
    /\ arg \in {Some([operation |-> o, parameters |-> p]) :
                    o \in Templates, p \in ParamMaps}
    /\ ret = None

ApplyParameters ==
    /\ ret = None
    /\ ret' = Some(apply_parameters(arg[1].operation, arg[1].parameters))
    /\ UNCHANGED <<threadVars, cursorVars, lineVars, settingVars, arg>>

NextParams == ApplyParameters

SpecParams == InitParams /\ [][NextParams]_vars

(***************************************************************************)
(* Vocabulary of the properties.                                           *)
(***************************************************************************)
\* the line sequence is a header, data rows and then a blank line
WellFormed(lines) ==
    /\ Len(lines) >= 2
    /\ lines[1] # Blank
    /\ \E i \in 2..Len(lines) : lines[i] = Blank

\* the place of the first blank line after the header
FirstBlank(lines) ==
    CHOOSE i \in 2..Len(lines) :
        /\ lines[i] = Blank
        /\ \A j \in 2..(i - 1) : lines[j] # Blank

\* the line sequence has a header and no blank line at all
NoTrailer(lines) ==
    /\ Len(lines) >= 1
    /\ \A i \in 1..Len(lines) : lines[i] # Blank

\* the Rows of the lines from the a-th to the b-th
RowsBetween(lines, a, b) ==
    [i \in 1..(b - a + 1) |->
        [fields |-> Rename(lines[1]), values |-> lines[a + i - 1]]]

HasStream(c) == results[c] # None /\ results[c][1].src = "stream"

\* cursor c is open and has executed, and no row has been pulled yet
Fresh(c) ==
    /\ ~closed[c]
    /\ HasStream(c)
    /\ results[c][1].pos = 1
    /\ ~results[c][1].done

\* the step is a call of op on cursor c
Called(op, c) == last'.op = op /\ last'.cur = c

(***************************************************************************)
(* C1: for a 200 response whose lines are a header, n >= 0 rows and then a *)
(* blank line, execute followed by fetchall returns exactly the n rows     *)
(* between the header and the first blank line, in stream order, and no    *)
(* line after the first blank line is ever read (Cursor and AsyncCursor).  *)
(***************************************************************************)
C1_FetchallStep(c) ==
    (/\ Fresh(c)
     /\ WellFormed(results[c][1].items)
     /\ Called("fetchall", c))
    => LET lines == results[c][1].items IN
       /\ last'.err = ""
       /\ last'.rows = RowsBetween(lines, 2, FirstBlank(lines) - 1)
       /\ results'[c][1].pos = FirstBlank(lines)

C1_NothingPastTrailer(c) ==
    (/\ results'[c] # None
     /\ results'[c][1].src = "stream"
     /\ WellFormed(results'[c][1].items))
    => results'[c][1].pos <= FirstBlank(results'[c][1].items)

C1_ExecuteFetchallReturnsRows ==
    [][\A c \in CursorIds : C1_FetchallStep(c) /\ C1_NothingPastTrailer(c)]_vars

\* an AsyncCursor has returned MaxRows rows from fetchall and left the line
\* after the trailer unread
C1_Witness ==
    /\ kind = "async"
    /\ last.op = "fetchall"
    /\ last.err = ""
    /\ Len(last.rows) = MaxRows
    /\ HasStream(last.cur)
    /\ Len(results[last.cur][1].items) > results[last.cur][1].pos

(***************************************************************************)
(* C2: for a 200 response whose lines end without a blank trailer line     *)
(* (also a header alone), the call that consumes the row sequence to its   *)
(* end raises 'Truncated response. Trailer line not found.' and returns no *)
(* rows; fetchall always does (Cursor and AsyncCursor).                    *)
(***************************************************************************)
C2_ReachesEnd(c) ==
    (/\ HasStream(c)
     /\ NoTrailer(results[c][1].items)
     /\ ~results[c][1].done
     /\ results'[c] # None
     /\ results'[c][1] = [results[c][1] EXCEPT !.pos = Len(results[c][1].items),
                                             !.done = TRUE])
    => last'.err = "Truncated" /\ last'.rows = <<>>

C2_Fetchall(c) ==
    (/\ HasStream(c)
     /\ NoTrailer(results[c][1].items)
     /\ ~results[c][1].done
     /\ ~closed[c]
     /\ Called("fetchall", c))
    => last'.err = "Truncated" /\ results'[c][1].done

C2_TruncatedRaises ==
    [][\A c \in CursorIds : C2_ReachesEnd(c) /\ C2_Fetchall(c)]_vars

\* fetchall has raised on a body that is a header alone
C2_Witness ==
    /\ last.op = "fetchall"
    /\ last.err = "Truncated"
    /\ HasStream(last.cur)
    /\ Len(results[last.cur][1].items) = 1

(***************************************************************************)
(* C3: on an executed synchronous Cursor with r rows remaining,            *)
(* fetchmany(size) with an explicitly passed size >= 0 returns exactly the *)
(* next min(size, r) rows in stream order, never more than size.           *)
(***************************************************************************)
\* the rows the row sequence g has yet to yield (a stream is well-formed)
Remaining(g) ==
    IF g.done THEN <<>>
    ELSE IF g.src = "list" THEN SubSeq(g.items, g.pos + 1, Len(g.items))
    ELSE RowsBetween(g.items, g.pos + 1, FirstBlank(g.items) - 1)

Min(a, b) == IF a <= b THEN a ELSE b

\* cursor c is open and has a row sequence that ends with a trailer
Fetchable(c) ==
    /\ ~closed[c]
    /\ results[c] # None
    /\ results[c][1].src = "stream" => WellFormed(results[c][1].items)

\* the step returns the next min(size, r) rows of cursor c
ReturnsNext(c, size) ==
    LET rem == Remaining(results[c][1]) IN
    /\ last'.err = ""
    /\ last'.rows = SubSeq(rem, 1, Min(size, Len(rem)))

C3_FetchmanyReturnsUpToSize ==
    [][\A c \in CursorIds :
        (/\ kind = "sync"
         /\ Fetchable(c)
         /\ Called("fetchmany", c)
         /\ last'.size # None)
        => ReturnsNext(c, last'.size[1])]_vars

(***************************************************************************)
(* C4: AsyncCursor.fetchmany(size), size >= 1, behaves like                *)
(* Cursor.fetchmany on every well-formed stream: it returns the next       *)
(* min(size, remaining) whole Rows, and [] once exhausted.                 *)
(***************************************************************************)
C4_AsyncFetchmanyLikeSync ==
    [][\A c \in CursorIds :
        (/\ kind = "async"
         /\ Fetchable(c)
         /\ Called("fetchmany", c)
         /\ last'.size # None
         /\ last'.size # Some(0))
        => ReturnsNext(c, last'.size[1])]_vars

(***************************************************************************)
(* C5: chunk-boundary invariance of _aiter_lines: for every partition of a *)
(* byte stream into chunks the lines emitted are those of the unsplit      *)
(* stream.                                                                 *)
(***************************************************************************)
C5_ChunkInvariance ==
    finished => emitted = splitlines(Concat(chunks))

(***************************************************************************)
(* C6: closed is terminal for a cursor: once closed it stays closed, and   *)
(* every execute, executemany, fetchone, fetchmany, fetchall, rowcount and *)
(* iteration call on it fails with a usage Error, issues no HTTP request   *)
(* and consumes no row.                                                    *)
(***************************************************************************)
UsageErrors == {"AlreadyClosed", "BeforeExecute"}

CursorCalls ==
    {"execute", "executemany", "fetchone", "fetchmany", "fetchall", "rowcount",
     "next", "iter"}

C6_ClosedIsTerminal ==
    [][\A c \in CursorIds :
        closed[c] =>
            /\ closed'[c]
            /\ (last'.cur = c /\ last'.op \in CursorCalls) =>
                  /\ last'.err \in UsageErrors
                  /\ ~last'.posted
                  /\ last'.rows = <<>>
                  /\ results'[c] = results[c]
                  /\ description'[c] = description[c]]_vars

\* a fetch has failed on a cursor closed in the middle of its stream
C6_Witness ==
    /\ last.op = "fetchone"
    /\ last.err = "AlreadyClosed"
    /\ closed[last.cur]
    /\ HasStream(last.cur)
    /\ results[last.cur][1].pos >= 2
    /\ ~results[last.cur][1].done

(***************************************************************************)
(* C7: Connection.close() on an open connection marks it closed and leaves *)
(* every cursor created through it closed, and it does not raise even when *)
(* cursors were already closed by the caller.                              *)
(***************************************************************************)
C7_CloseCascades ==
    [][(~conn_closed /\ last'.op = "conn.close") =>
          /\ last'.err = ""
          /\ conn_closed'
          /\ cursors' = cursors
          /\ \A i \in 1..Len(cursors) : closed'[cursors[i]]]_vars

\* close() has returned after swallowing the Error of an already closed
\* cursor and closing an open one
C7_Witness ==
    /\ last.op = "conn.close"
    /\ last.err = ""
    /\ last.n >= 1
    /\ last.n < Len(cursors)
    /\ conn_closed

(***************************************************************************)
(* C8: a closed Connection is not reusable: it stays closed, and every     *)
(* cursor(), execute(), commit() and close() on it fails with 'already     *)
(* closed', registers no cursor and issues no request.                     *)
(***************************************************************************)
ConnCalls == {"conn.cursor", "conn.execute", "conn.commit", "conn.close"}

C8_ClosedConnectionFails ==
    [][conn_closed =>
          /\ conn_closed'
          /\ cursors' = cursors
          /\ last'.op \in ConnCalls =>
                /\ last'.err = "AlreadyClosed"
                /\ ~last'.posted
                /\ UNCHANGED <<closed, description, results, executed>>]_vars

\* execute() has failed on a closed connection that has cursors
C8_Witness ==
    /\ conn_closed
    /\ last.op = "conn.execute"
    /\ last.err = "AlreadyClosed"
    /\ Len(cursors) >= 1

(***************************************************************************)
(* C9: on an open cursor that has had no successful execute, fetchone,     *)
(* fetchmany, fetchall, iteration and rowcount fail with 'Called before    *)
(* `execute`' and leave description, row sequence and closed flag as they  *)
(* were.                                                                   *)
(***************************************************************************)
FetchCalls == {"fetchone", "fetchmany", "fetchall", "rowcount", "next"}

C9_FetchBeforeExecuteFails ==
    [][\A c \in CursorIds :
        (/\ c \in Created
         /\ ~closed[c]
         /\ ~executed[c]
         /\ last'.cur = c
         /\ last'.op \in FetchCalls)
        => /\ last'.err = "BeforeExecute"
           /\ description'[c] = description[c]
           /\ results'[c] = results[c]
           /\ closed'[c] = closed[c]]_vars

\* rowcount has failed on an open cursor whose only execute failed
C9_Witness ==
    /\ last.op = "rowcount"
    /\ last.err = "BeforeExecute"
    /\ last.cur \in Created
    /\ ~closed[last.cur]
    /\ ~executed[last.cur]

(***************************************************************************)
(* C10: when the HTTP status of an execute is not 200, execute raises the  *)
(* query error and the cursor is left without a row sequence, whatever its *)
(* state before (unexecuted, streaming or exhausted).                      *)
(***************************************************************************)
C10_FailedExecuteLeavesNoRows ==
    (/\ last.op \in {"execute", "conn.execute"}
     /\ last.err = "ProgrammingError")
    => results[last.cur] = None

(***************************************************************************)
(* C11: for every non-200 response whose body is not JSON or is a JSON     *)
(* object with error, errorMessage and errorClass or errorCode, the Error  *)
(* Translator raises a ProgrammingError whose message is exactly           *)
(* '{error} ({errorClass}): {errorMessage}', errorClass being the          *)
(* payload's errorClass when present (also beside a different errorCode),  *)
(* its errorCode only when errorClass is absent, and a body that is not    *)
(* JSON being error='Unknown error', errorClass='Unknown',                 *)
(* errorMessage=<raw body text>; for every other body the call fails with  *)
(* a formatting error (KeyError for a missing field) and raises no         *)
(* ProgrammingError.                                                       *)
(***************************************************************************)
\* the errorClass the message shows for the JSON object p
ShownClass(p) ==
    IF "errorClass" \in DOMAIN p THEN p["errorClass"] ELSE p["errorCode"]

\* the JSON object p has the three fields of the message
Complete(p) ==
    /\ {"error", "errorMessage"} \subseteq DOMAIN p
    /\ {"errorClass", "errorCode"} \cap DOMAIN p # {}

\* the exception is the ProgrammingError the claim describes for the body b
TranslatedAs(out, b) ==
    /\ out.exc = "ProgrammingError"
    /\ IF b.json = "invalid"
       THEN out.msg = <<"Unknown error", " (", "Unknown", "): ", b.text>>
       ELSE /\ b.json = "object"
            /\ Complete(b.payload)
            /\ out.msg = <<b.payload["error"], " (", ShownClass(b.payload), "): ",
                           b.payload["errorMessage"]>>

C11_ErrorTranslated ==
    ret # None =>
        LET b == arg[1].body IN
        IF b.json = "invalid" \/ (b.json = "object" /\ Complete(b.payload))
        THEN TranslatedAs(ret[1], b)
        ELSE ret[1].exc \in {"KeyError", "TypeError"} /\ ret[1].msg = <<>>

\* the claim as stated: every non-200 response is translated
C11_EveryResponseTranslated ==
    ret # None => TranslatedAs(ret[1], arg[1].body)

\* a payload with errorClass and a different errorCode has been translated
C11_Witness ==
    /\ ret # None
    /\ ret[1].exc = "ProgrammingError"
    /\ arg[1].body.json = "object"
    /\ {"errorClass", "errorCode"} \subseteq DOMAIN arg[1].body.payload
    /\ arg[1].body.payload["errorClass"] # arg[1].body.payload["errorCode"]

(***************************************************************************)
(* C12: executemany always fails, issues no request and changes no cursor  *)
(* state: on an open cursor (unexecuted, streaming or exhausted) with the  *)
(* NotSupportedError '`executemany` is not supported, use `execute`        *)
(* instead', on a closed cursor with the Error 'already closed'.           *)
(***************************************************************************)
\* the step is a call on cursor c that issued no request and changed nothing
NoEffect(c) ==
    /\ ~last'.posted
    /\ last'.rows = <<>>
    /\ UNCHANGED <<closed, description, results, arraysize, executed, cursors,
                   conn_closed>>

C12_ExecutemanyFails ==
    [][\A c \in CursorIds :
        Called("executemany", c) =>
            /\ last'.err = IF closed[c] THEN "AlreadyClosed" ELSE "NotSupported"
            /\ NoEffect(c)]_vars

\* the claim as stated: NotSupportedError from every state, closed included
C12_ExecutemanyNotSupportedEverywhere ==
    [][\A c \in CursorIds :
        Called("executemany", c) =>
            /\ last'.err = "NotSupported"
            /\ NoEffect(c)]_vars

\* executemany has failed on an open cursor in the middle of its stream
C12_Witness ==
    /\ last.op = "executemany"
    /\ last.err = "NotSupported"
    /\ ~closed[last.cur]
    /\ HasStream(last.cur)
    /\ results[last.cur][1].pos >= 2
    /\ ~results[last.cur][1].done

(***************************************************************************)
(* C13: as soon as a successful execute returns and before any row is      *)
(* fetched, description is [(name, None)] for each header column in header *)
(* order, with the header's original names even when the Row's field names *)
(* were renamed; and no later fetchone, fetchmany, fetchall or rowcount    *)
(* changes description.                                                    *)
(***************************************************************************)
\* d is the descriptor of the header line: its names, each with None
NamesOnly(d, header) ==
    /\ d # None
    /\ Len(d[1]) = Len(header)
    /\ \A i \in 1..Len(header) : d[1][i] = <<header[i], "None">>

C13_ExecuteStep(c) ==
    (/\ last'.cur = c
     /\ last'.op \in {"execute", "conn.execute"}
     /\ last'.err = "")
    => /\ results'[c] # None
       /\ results'[c][1].src = "stream"
       /\ results'[c][1].pos = 1
       /\ ~results'[c][1].done
       /\ NamesOnly(description'[c], results'[c][1].items[1])

C13_FetchStep(c) ==
    (/\ last'.cur = c
     /\ last'.op \in {"fetchone", "fetchmany", "fetchall", "rowcount"})
    => description'[c] = description[c]

C13_DescriptionAfterExecute ==
    [][\A c \in CursorIds : C13_ExecuteStep(c) /\ C13_FetchStep(c)]_vars

\* a row has been fetched under a renamed field name, and description shows
\* the name of the header
C13_Witness ==
    /\ kind = "sync"
    /\ last.op = "fetchone"
    /\ last.err = ""
    /\ last.rows # <<>>
    /\ HasStream(last.cur)
    /\ last.rows[1].fields # results[last.cur][1].items[1]
    /\ NamesOnly(description[last.cur], results[last.cur][1].items[1])

(***************************************************************************)
(* C14: a cursor returned by Connection.cursor() or                        *)
(* AsyncConnection.cursor() inherits the connection's settings field by    *)
(* field: its url, user, password, context, ssl_verify_cert,               *)
(* ssl_client_cert, proxies and timeout each equal the connection's        *)
(* setting of the same name, and the cursor is appended to the             *)
(* connection's cursor list.                                               *)
(***************************************************************************)
C14_CursorInheritsSettings ==
    [][(last'.op = "conn.cursor" /\ last'.err = "") =>
          /\ cursors' = Append(cursors, last'.cur)
          /\ settings'[last'.cur] # None
          /\ LET cursor == settings'[last'.cur][1] IN
             /\ cursor.url = conn.url
             /\ cursor.user = conn.user
             /\ cursor.password = conn.password
             /\ heap'[cursor.context] = heap[conn.context]
             /\ cursor.ssl_verify_cert = conn.ssl_verify_cert
             /\ cursor.ssl_client_cert = conn.ssl_client_cert
             /\ cursor.proxies = conn.proxies
             /\ cursor.timeout = conn.timeout]_vars

(***************************************************************************)
(* C15: apply_parameters(template, parameters) returns the template        *)
(* unchanged when parameters is None or empty; otherwise it replaces each  *)
(* %(key)s placeholder by the literal of the value: the value '*'          *)
(* unquoted, any other string single-quoted with each internal single      *)
(* quote doubled, a boolean as TRUE or FALSE (never as a number), and an   *)
(* int/float as its bare text (and %% by %, as the tests show).            *)
(***************************************************************************)
\* the number of single quotes in the text s
RECURSIVE Quotes(_)
Quotes(s) == IF s = <<>> THEN 0
             ELSE (IF Head(s) = "'" THEN 1 ELSE 0) + Quotes(Tail(s))

\* q is s between single quotes with every single quote of s doubled
IsQuoted(q, s) ==
    /\ Len(q) = Len(s) + Quotes(s) + 2
    /\ q[1] = "'"
    /\ q[Len(q)] = "'"
    /\ \A i \in 1..Len(s) :
          LET at == 1 + i + Quotes(SubSeq(s, 1, i - 1)) IN
          /\ q[at] = s[i]
          /\ s[i] = "'" => q[at + 1] = "'"

\* lit is the literal of the scalar v
IsLiteral(lit, v) ==
    IF v.t = "str" /\ v.s = <<"*">> THEN lit = <<"*">>
    ELSE IF v.t = "str" THEN IsQuoted(lit, v.s)
    ELSE IF v.t = "bool" THEN lit = <<IF v.n = 1 THEN "TRUE" ELSE "FALSE">>
    ELSE IF v.t = "int" THEN lit = decimal(v.n)
    ELSE lit = decimal(v.n) \o <<".">> \o v.s

\* text is the literals of the elements from the i-th on, joined by ', '
RECURSIVE IsJoined(_, _, _)
IsJoined(text, elems, i) ==
    IF i > Len(elems) THEN text = <<>>
    ELSE \E n \in 0..Len(text) :
            /\ IsLiteral(SubSeq(text, 1, n), elems[i])
            /\ IF i = Len(elems)
               THEN n = Len(text)
               ELSE /\ Len(text) >= n + 2
                    /\ text[n + 1] = ","
                    /\ text[n + 2] = " "
                    /\ IsJoined(SubSeq(text, n + 3, Len(text)), elems, i + 1)

\* lit is what the claims say the value v renders as
Renders(lit, v) ==
    IF v.t = "list" THEN IsJoined(lit, v.elems, 1) ELSE IsLiteral(lit, v)

\* text is template with every %(k)s replaced by the rendering of v and
\* every %% by %
RECURSIVE Filled(_, _, _)
Filled(text, template, v) ==
    IF template = <<>> THEN text = <<>>
    ELSE IF Head(template) = "%(k)s"
    THEN \E n \in 0..Len(text) :
            /\ Renders(SubSeq(text, 1, n), v)
            /\ Filled(SubSeq(text, n + 1, Len(text)), Tail(template), v)
    ELSE /\ text # <<>>
         /\ Head(text) = (IF Head(template) = "%%" THEN "%" ELSE Head(template))
         /\ Filled(Tail(text), Tail(template), v)

\* every placeholder of the template has its key in the parameters
Resolved(template) == \A i \in 1..Len(template) : template[i] # "%(j)s"

C15_ApplyParameters ==
    ret # None =>
        LET a == arg[1] IN
        IF a.parameters = None \/ a.parameters = Some(<<>>)
        THEN ret[1] = [exc |-> "", text |-> a.operation]
        ELSE (a.parameters[1]["k"].t # "list" /\ Resolved(a.operation)) =>
                /\ ret[1].exc = ""
                /\ Filled(ret[1].text, a.operation, a.parameters[1]["k"])

\* a string with a single quote has been substituted for two placeholders
C15_Witness ==
    /\ ret # None
    /\ ret[1].exc = ""
    /\ arg[1].operation = <<"%(k)s", "%(k)s">>
    /\ arg[1].parameters = Some("k" :> StrP(<<"a", "'">>))
    /\ ret[1].text = <<"'", "a", "'", "'", "'", "'", "a", "'", "'", "'">>

(***************************************************************************)
(* C16: a list or tuple parameter value renders as the ', '-joined escaped *)
(* forms of its elements, for elements of every supported scalar kind      *)
(* (strings, numbers, booleans and mixtures of them), one literal per      *)
(* element in the list's order.                                            *)
(***************************************************************************)
C16_ListsRenderJoined ==
    (/\ ret # None
     /\ arg[1].parameters # None
     /\ arg[1].parameters # Some(<<>>)
     /\ arg[1].parameters[1]["k"].t = "list"
     /\ Resolved(arg[1].operation))
    => /\ ret[1].exc = ""
       /\ Filled(ret[1].text, arg[1].operation, arg[1].parameters[1]["k"])

(***************************************************************************)
(* C17: the column descriptor carries no per-column type or nullability:   *)
(* description is (name, None) for each column from the moment execute     *)
(* returns and also once the first row has been emitted, whatever the kind *)
(* of that row's values (string, null, boolean, number); for an empty      *)
(* result likewise only the names are known.                               *)
(***************************************************************************)
\* the first data row of the stream of cursor c has been emitted
FirstRowEmitted(c) ==
    /\ HasStream(c)
    /\ results[c][1].pos >= 2
    /\ results[c][1].items[2] # Blank

C17_DescriptionHasNoTypes ==
    \A c \in CursorIds :
        description[c] # None =>
            \A i \in 1..Len(description[c][1]) :
                /\ Len(description[c][1][i]) = 2
                /\ description[c][1][i][2] = "None"

\* the claim as stated: the first emitted row gives every column its type
\* and nullability
C17_DescriptionTypedByFirstRow ==
    \A c \in CursorIds :
        (FirstRowEmitted(c) /\ last.cur = c /\ last.op \in FetchCalls /\ last.err = "")
        => /\ description[c] # None
           /\ \A i \in 1..Len(description[c][1]) :
                LET value == results[c][1].items[2][i]
                    column == description[c][1][i]
                IN /\ Len(column) = 7
                   /\ column[2] = (IF value.t \in {"str", "null"} THEN Type.STRING
                                   ELSE IF value.t = "bool" THEN Type.BOOLEAN
                                   ELSE Type.NUMBER)
                   /\ column[7] = (value.t \in {"str", "null"})

\* the first row, with a boolean, has been fetched and description is there
C17_Witness ==
    /\ last.op = "fetchone"
    /\ last.err = ""
    /\ FirstRowEmitted(last.cur)
    /\ results[last.cur][1].pos = 2
    /\ results[last.cur][1].items[2][1].t = "bool"
    /\ description[last.cur] # None

(***************************************************************************)
(* C18: on an executed cursor over a well-formed stream with r rows not    *)
(* yet fetched, rowcount returns r, a second rowcount returns r again, and *)
(* the fetch results after rowcount are exactly those that the same fetch  *)
(* calls would have returned had rowcount not been called.                 *)
(***************************************************************************)
\* what a fetch that ended as r shows the caller, and the rows it leaves
Shown(r) == [err |-> r.err, rows |-> IF r.err = "" THEN r.rows ELSE <<>>,
             left |-> Remaining(r.g)]

\* what fetchone, fetchmany(n) and fetchall show the caller on the row
\* sequence g
FetchResults(g) ==
    [one |-> LET r == GenNext(g) IN
             Shown([g |-> r.g, err |-> Raised(r.out),
                    rows |-> IF r.out = "row" THEN <<r.item>> ELSE <<>>]),
     many |-> [n \in 1..(MaxSize + 1) |->
                 Shown(IF kind = "sync" THEN islice(g, n)
                       ELSE async_fetchmany_loop(g, n, <<>>))],
     all |-> Shown(list(g))]

C18_RowcountStep(c) ==
    (Fetchable(c) /\ Called("rowcount", c))
    => /\ last'.err = ""
       /\ last'.n = Len(Remaining(results[c][1]))
       /\ results'[c] # None
       /\ Remaining(results'[c][1]) = Remaining(results[c][1])
       /\ FetchResults(results'[c][1]) = FetchResults(results[c][1])
       /\ (last.op = "rowcount" /\ last.cur = c /\ last.err = "") => last'.n = last.n

C18_RowcountKeepsRows ==
    [][\A c \in CursorIds : C18_RowcountStep(c)]_vars

\* after rowcount, fetchall has returned the MaxRows rows of the stream
C18_Witness ==
    /\ last.op = "fetchall"
    /\ last.err = ""
    /\ Len(last.rows) = MaxRows
    /\ results[last.cur] # None
    /\ results[last.cur][1].src = "list"
    /\ Len(results[last.cur][1].items) = MaxRows

(***************************************************************************)
(* C19: exhausted is absorbing until the next execute: once the row        *)
(* sequence of an open cursor has been consumed through the trailer (by    *)
(* fetchone, fetchmany, fetchall or after rowcount), every later fetchone  *)
(* returns None and every later fetchmany/fetchall returns an empty list,  *)
(* without raising.                                                        *)
(***************************************************************************)
\* the row sequence of cursor c has been consumed through the trailer, or
\* is a materialized list consumed to its end
Exhausted(c) ==
    /\ results[c] # None
    /\ LET g == results[c][1] IN
       IF g.src = "stream"
       THEN /\ g.done
            /\ WellFormed(g.items)
            /\ g.pos = FirstBlank(g.items)
       ELSE g.pos = Len(g.items)

C19_ExhaustedStep(c) ==
    (Exhausted(c) /\ ~closed[c] /\ last'.cur = c)
    => /\ last'.op \in {"fetchone", "fetchmany", "fetchall"} =>
             last'.err = "" /\ last'.rows = <<>>
       /\ last'.op \notin {"execute", "conn.execute"} =>
             /\ results'[c] # None
             /\ LET g == results'[c][1] IN
                IF g.src = "stream"
                THEN g.done /\ g.pos = FirstBlank(g.items)
                ELSE g.pos = Len(g.items)

C19_ExhaustedIsAbsorbing ==
    [][\A c \in CursorIds : C19_ExhaustedStep(c)]_vars

\* fetchone has returned None on the rows that rowcount materialized, all
\* of them fetched before the call
C19_Witness ==
    /\ last.op = "fetchone"
    /\ last.err = ""
    /\ last.rows = <<>>
    /\ ~closed[last.cur]
    /\ Exhausted(last.cur)
    /\ results[last.cur][1].src = "list"
    /\ Len(results[last.cur][1].items) = MaxRows

(***************************************************************************)
(* C20: a second successful execute on the same cursor replaces the row    *)
(* sequence and the descriptor entirely: after it returns, description is  *)
(* that of the second query's header and the row sequence is the second    *)
(* query's stream from its first row, with no unfetched row of the first   *)
(* query, whatever state (streaming or exhausted) the first query was in.  *)
(***************************************************************************)
C20_ExecuteStep(c) ==
    (/\ results[c] # None
     /\ last'.cur = c
     /\ last'.op = "execute"
     /\ last'.err = "")
    => /\ NamesOnly(description'[c], last'.body[1])
       /\ results'[c] = Some([src |-> "stream", items |-> last'.body, pos |-> 1,
                              done |-> FALSE])
       /\ WellFormed(last'.body) =>
             list(results'[c][1]).rows
                = RowsBetween(last'.body, 2, FirstBlank(last'.body) - 1)

C20_SecondExecuteReplaces ==
    [][\A c \in CursorIds : C20_ExecuteStep(c)]_vars

\* an execute has replaced a stream with MaxRows unfetched rows by a stream
\* of another header
C20_Witness ==
    /\ last.op = "execute"
    /\ last.err = ""
    /\ last.n = MaxRows
    /\ Fresh(last.cur)
    /\ Len(results[last.cur][1].items[1]) = 1
    /\ Len(results[last.cur][1].items) = 2

(***************************************************************************)
(* C21: a cursor's context is copied from the connection, not shared: for  *)
(* every connection context, empty or not, a change of the connection's    *)
(* context mapping or of another cursor's context, made after the cursor   *)
(* was created, does not change the context the cursor sends in the        *)
(* payload of its later execute calls.                                     *)
(***************************************************************************)
\* the context an execute of cursor c would send now
Sends(c) == prepare_headers_and_payload(settings[c][1]).payload.context

C21_ContextIsCopied ==
    [][\A c \in Created :
          /\ (last'.op = "execute" /\ last'.cur = c /\ last'.posted) =>
                last'.payload = Some([context |-> Sends(c), header |-> TRUE,
                                      resultFormat |-> "arrayLines"])
          /\ (last'.op = "context" /\ last'.cur # c) => Sends(c)' = Sends(c)]_vars

(***************************************************************************)
(* C22: in the closed state of a cursor the closed flag can be read, and   *)
(* every operation fails: close() on an already closed cursor fails with   *)
(* the usage Error "Cursor already closed" and leaves the cursor closed    *)
(* and as it was, as execute, executemany, the fetches, rowcount and       *)
(* iteration fail.                                                         *)
(***************************************************************************)
C22_ClosedStep(c) ==
    (closed[c] /\ last'.cur = c /\ last'.op \in CursorCalls \cup {"close"}) =>
        /\ last'.err \in UsageErrors
        /\ closed'[c]
        /\ last'.op = "close" =>
              /\ last'.err = "AlreadyClosed"
              /\ NoEffect(c)

C22_EveryCallOnClosedFails ==
    [][\A c \in CursorIds : C22_ClosedStep(c)]_vars

\* C22 as stated: on a closed cursor close() succeeds and leaves it closed,
\* every other operation fails
C22_OnlyCloseSucceedsOnClosed ==
    [][\A c \in CursorIds :
          (closed[c] /\ last'.cur = c) =>
              /\ last'.op = "close" => (last'.err = "" /\ closed'[c])
              /\ last'.op \in CursorCalls => last'.err \in UsageErrors]_vars

\* close() has failed on a cursor that was closed in the middle of its
\* stream
C22_Witness ==
    /\ last.op = "close"
    /\ last.err = "AlreadyClosed"
    /\ closed[last.cur]
    /\ HasStream(last.cur)
    /\ ~results[last.cur][1].done

(***************************************************************************)
(* C23: round trip of _aiter_lines: for every byte stream and every        *)
(* chunking of it, the lines emitted, each followed by a terminator (LF,   *)
(* CR or CR LF) put back in, concatenate to the original byte stream; when *)
(* the stream does not end in a terminator, its last line is followed by   *)
(* none.                                                                   *)
(***************************************************************************)
Terminators == {<<"LF">>, <<"CR">>, <<"CR", "LF">>}

\* s is the lines, each followed by some terminator
RECURSIVE Reinserted(_, _)
Reinserted(lines, s) ==
    IF lines = <<>> THEN s = <<>>
    ELSE \E t \in Terminators :
            LET p == Head(lines) \o t IN
            /\ Len(s) >= Len(p)
            /\ SubSeq(s, 1, Len(p)) = p
            /\ Reinserted(Tail(lines), SubSeq(s, Len(p) + 1, Len(s)))

\* the last byte of s is a terminator byte
Terminated(s) == s # <<>> /\ s[Len(s)] \in {"LF", "CR"}

\* s is the lines, each but the last followed by some terminator
ReinsertedOpen(lines, s) ==
    /\ lines # <<>>
    /\ LET tail == lines[Len(lines)] IN
       /\ Len(s) >= Len(tail)
       /\ SubSeq(s, Len(s) - Len(tail) + 1, Len(s)) = tail
       /\ Reinserted(Front(lines), SubSeq(s, 1, Len(s) - Len(tail)))

C23_RoundTrip ==
    finished =>
        LET stream == Concat(chunks) IN
        IF stream = <<>> \/ Terminated(stream)
        THEN Reinserted(emitted, stream)
        ELSE ReinsertedOpen(emitted, stream)

\* C23 as stated: a terminator follows every line, also when the last byte
\* of the stream is not a terminator
C23_RoundTripEveryLineTerminated ==
    finished => Reinserted(emitted, Concat(chunks))

\* the stream was cut inside a CR LF and ends in a line without terminator
C23_Witness ==
    /\ finished
    /\ Len(chunks) = MaxChunks
    /\ \E i \in 1..(Len(chunks) - 1) :
          /\ chunks[i] # <<>>
          /\ chunks[i][Len(chunks[i])] = "CR"
          /\ chunks[i + 1] # <<>>
          /\ chunks[i + 1][1] = "LF"
    /\ ~Terminated(Concat(chunks))
    /\ Len(emitted) >= 3

(***************************************************************************)
(* C24: single-pass conservation: on an executed cursor, under every       *)
(* sequence of fetchone, fetchmany, fetchall, iteration and rowcount       *)
(* calls, the rows returned so far are a prefix of the stream's rows (none *)
(* twice, skipped or reordered), and all of them once a fetch has reported *)
(* exhaustion.  Step by step: the rows a call returns followed by the rows *)
(* it leaves are the rows it found, and a call that reports exhaustion     *)
(* leaves none.                                                            *)
(***************************************************************************)
\* the rows the row sequence g has yet to yield: those up to the trailer,
\* or up to the end of a stream that has none
Unreturned(g) ==
    IF g.done THEN <<>>
    ELSE IF g.src = "list" THEN SubSeq(g.items, g.pos + 1, Len(g.items))
    ELSE RowsBetween(g.items, g.pos + 1, g.pos + unread(Some(g)))

RowCalls == {"fetchone", "fetchmany", "fetchall", "next", "rowcount"}

\* the call reported that no row is left
ReportsExhaustion ==
    \/ last'.op = "fetchone" /\ last'.err = "" /\ last'.rows = <<>>
    \/ last'.op = "next" /\ last'.err = "StopIteration"
    \/ last'.op \in {"fetchmany", "fetchall"} /\ last'.err = "" /\ last'.rows = <<>>

C24_Step(c) ==
    (/\ ~closed[c]
     /\ results[c] # None
     /\ last'.cur = c
     /\ last'.op \in RowCalls)
    => /\ Unreturned(results[c][1]) = last'.rows \o Unreturned(results'[c][1])
       /\ ReportsExhaustion => Unreturned(results[c][1]) = <<>>

C24_SinglePassConservation ==
    [][\A c \in CursorIds : C24_Step(c)]_vars

\* C24 for Cursor on the streams that end with a trailer
C24_SyncWellFormed ==
    [][\A c \in CursorIds :
          (kind = "sync" /\ Fetchable(c)) => C24_Step(c)]_vars

(***************************************************************************)
(* C25: on a stream that ends without a trailer the truncation error is    *)
(* reported at most once per execute, and only by the call that reaches    *)
(* the end of the stream: fetchone with a row left and fetchmany(k) with   *)
(* at least k rows left return rows without error, the call that reaches   *)
(* the end raises and returns none of the rows it gathered, and every      *)
(* fetch or rowcount after it returns None, [] or 0 without raising, as on *)
(* a stream that ended with a trailer (Cursor).                            *)
(***************************************************************************)
FetchOrCount == {"fetchone", "fetchmany", "fetchall", "rowcount"}

\* the k of the call fetchmany(k) of the step; fetchmany() asks for arraysize
AskedFor(c) == IF last'.size = None THEN arraysize[c] ELSE last'.size[1]

\* the step is a fetch or rowcount of the Cursor c on a stream without
\* trailer; zero tells whether fetchmany(0) is among the calls
C25_Step(c, zero) ==
    (/\ kind = "sync"
     /\ ~closed[c]
     /\ HasStream(c)
     /\ NoTrailer(results[c][1].items)
     /\ last'.cur = c
     /\ last'.op \in FetchOrCount
     /\ zero \/ last'.size # Some(0))
    => LET g == results[c][1]
           left == Len(g.items) - g.pos
       IN IF g.done
          THEN /\ last'.err = ""
               /\ last'.rows = <<>>
               /\ last'.n = 0
               /\ Unreturned(results'[c][1]) = <<>>
          ELSE /\ (last'.op = "fetchone" /\ left >= 1) =>
                     /\ last'.err = ""
                     /\ last'.rows = RowsBetween(g.items, g.pos + 1, g.pos + 1)
               /\ (last'.op = "fetchmany" /\ left >= AskedFor(c)) =>
                     /\ last'.err = ""
                     /\ ~results'[c][1].done
               /\ last'.err = "Truncated" <=> results'[c][1].done
               /\ last'.err = "Truncated" => last'.rows = <<>>
               /\ last'.err \in {"", "Truncated"}

C25_TruncationReportedOnce ==
    [][\A c \in CursorIds : C25_Step(c, TRUE)]_vars

\* C25 for every call but fetchmany(0)
C25_ExceptSizeZero ==
    [][\A c \in CursorIds : C25_Step(c, FALSE)]_vars

(***************************************************************************)
(* C26: no locking is needed for the registration of cursors: when         *)
(* cursor() or execute() and close() run on the same connection in two     *)
(* threads, their steps interleaved in any order, then once close() has    *)
(* returned every cursor in the connection's cursor list is closed: no     *)
(* open cursor is left registered on a closed connection.                  *)
(***************************************************************************)
C26_NoOpenCursorOnClosedConnection ==
    threads.close = "returned" =>
        \A i \in 1..Len(cursors) : closed[cursors[i]]

=============================================================================
